---------------------------- MODULE Spec2Model ----------------------------
(***************************************************************************)
(* skills-detector: detection of a project's frameworks, languages, tools  *)
(* and testing stack from marker files and package.json dependencies       *)
(* (src/index.ts, src/detectors/*.ts), and the command line run that turns *)
(* the detected terms into a skills.json report (src/cli.ts).              *)
(*                                                                         *)
(* JavaScript strings are TLA+ strings; a character is a string of length  *)
(* one, read with SubSeq(s, i, i).                                         *)
(***************************************************************************)
EXTENDS Integers, Sequences, FiniteSets, TLC

VARIABLES
    files,       \* the paths that exist under cwd (a trailing "/" is a directory)
    manifest,    \* what reading and parsing cwd/package.json gives
    pc,          \* the position of the running call
    detected,    \* the DetectionResult of detect(), Undefined before it returns
    toolList,    \* a list of tool names given to the supersession step
    passes,      \* what the supersession step returned, pass after pass
    skillRef,    \* isRelevantSkill's candidate, "owner/repo@skill"
    term,        \* isRelevantSkill's search term
    detectedFrameworks,  \* isRelevantSkill's list of detected frameworks
    relevant,    \* what isRelevantSkill returned
    refs,        \* the skill references given to the aggregation
    skills,      \* the SkillEntry list groupSkillsBySource returned
    options,     \* main: the CliOptions parseArgs returned
    allSkillRefs,  \* main: the references collected so far
    searchTerms, \* main: the terms left for the search after the filters
    nextTerm,    \* main: the position in searchTerms of the next term to search
    searchLog,   \* the calls of searchSkills so far: term, what execSync did, result
    skillsJson,  \* main: the report assembled, NoReport before
    printed,     \* what the run has written to stdout, in order
    skillsFile,  \* skills.json under cwd
    exitCode,    \* process.exitCode
    searchOutput,  \* what execSync did in a call of searchSkills taken on its own
    searchReturn  \* what that call of searchSkills returned, <<>> for null

projectVars == <<files, manifest>>
detectVars == <<files, manifest, detected>>
filterVars == <<toolList, passes>>
relevanceVars == <<skillRef, term, detectedFrameworks, relevant>>
groupVars == <<refs, skills>>
searchVars == <<searchOutput, searchReturn>>
runVars == <<options, allSkillRefs, searchTerms, nextTerm, searchLog,
             skillsJson, printed, skillsFile, exitCode, searchVars>>
vars == <<files, manifest, pc, detected, toolList, passes,
          skillRef, term, detectedFrameworks, relevant, refs, skills,
          options, allSkillRefs, searchTerms, nextTerm, searchLog,
          skillsJson, printed, skillsFile, exitCode, searchOutput, searchReturn>>

\* the JavaScript value undefined
Undefined == [undefined |-> TRUE]

(***************************************************************************)
(* Bounds of the model.                                                    *)
(***************************************************************************)
\* the most marker files plus package.json entries a project holds
MaxSignals == 4
\* the longest list of tool names given to the supersession step
MaxToolList == 4
\* how many times the supersession step is applied to its own output
MaxPasses == 2
\* the most chunks the repository name of a candidate is made of
MaxChunks == 2
\* the longest list of skill references given to the aggregation
MaxRefs == 3
\* the most lines the registry prints for one search
MaxLines == 2

(***************************************************************************)
(* JavaScript string primitives.                                           *)
(***************************************************************************)
LowerLetters == "abcdefghijklmnopqrstuvwxyz"
UpperLetters == "ABCDEFGHIJKLMNOPQRSTUVWXYZ"
DigitChars == "0123456789"

CharAt(s, i) == SubSeq(s, i, i)

CharsOf(s) == {CharAt(s, i) : i \in 1..Len(s)}

\* the position of each character of s (each occurring once) in s
PositionIn(s) == [c \in CharsOf(s) |-> CHOOSE i \in 1..Len(s) : CharAt(s, i) = c]

\* the UTF-16 code unit of each character the model's strings are written in
CodeUnit ==
    [c \in CharsOf(LowerLetters) |-> 96 + PositionIn(LowerLetters)[c]] @@
    [c \in CharsOf(UpperLetters) |-> 64 + PositionIn(UpperLetters)[c]] @@
    [c \in CharsOf(DigitChars) |-> 47 + PositionIn(DigitChars)[c]] @@
    (" " :> 32) @@ ("*" :> 42) @@ ("+" :> 43) @@ ("-" :> 45) @@ ("." :> 46) @@
    ("/" :> 47) @@ (":" :> 58) @@ ("@" :> 64) @@ ("[" :> 91) @@ ("\\" :> 92) @@
    ("_" :> 95) @@ ("~" :> 126)

\* a < b as JavaScript compares strings: by code units, a proper prefix first
StrLess(a, b) ==
    LET less[i \in 1..(Len(b) + 1)] ==
            IF i > Len(b) THEN FALSE
            ELSE IF i > Len(a) THEN TRUE
            ELSE IF CharAt(a, i) # CharAt(b, i)
                 THEN CodeUnit[CharAt(a, i)] < CodeUnit[CharAt(b, i)]
                 ELSE less[i + 1]
    IN  less[1]

\* [...new Set(arr)]: the first occurrence of each element, in order
UniqueInOrder(arr) ==
    LET keep[i \in 0..Len(arr)] ==
            IF i = 0 THEN <<>>
            ELSE IF \E j \in 1..(i - 1) : arr[j] = arr[i]
                 THEN keep[i - 1]
                 ELSE Append(keep[i - 1], arr[i])
    IN  keep[Len(arr)]

\* arr with x put before the first element greater than x (after its equals)
InsertSorted(arr, x) ==
    LET n == Cardinality({i \in 1..Len(arr) : ~StrLess(x, arr[i])})
    IN  SubSeq(arr, 1, n) \o <<x>> \o SubSeq(arr, n + 1, Len(arr))

\* a slip: the .sort() call left out
SortStringsOmitted(arr) == arr

\* Array.prototype.sort() without a comparator: ascending by code units
SortStrings(arr) ==
    LET sorted[i \in 0..Len(arr)] ==
            IF i = 0 THEN <<>> ELSE InsertSorted(sorted[i - 1], arr[i])
    IN  sorted[Len(arr)]

Range(seq) == {seq[i] : i \in 1..Len(seq)}

(***************************************************************************)
(* The pattern tables.  A rule is a record that holds only the clauses its *)
(* source declares.                                                        *)
(***************************************************************************)
FRAMEWORK_PATTERNS ==
    <<
      [name |-> "nextjs",
       configFiles |-> <<"next.config.js", "next.config.ts", "next.config.mjs", "next.config.cjs">>,
       dependencies |-> <<"next">>],
      [name |-> "remix",
       configFiles |-> <<"remix.config.js", "remix.config.ts">>,
       dependencies |-> <<"@remix-run/react", "@remix-run/node">>],
      [name |-> "astro",
       configFiles |-> <<"astro.config.mjs", "astro.config.ts", "astro.config.js">>,
       dependencies |-> <<"astro">>],
      [name |-> "nuxt",
       configFiles |-> <<"nuxt.config.js", "nuxt.config.ts">>,
       dependencies |-> <<"nuxt", "nuxt3">>],
      [name |-> "sveltekit",
       configFiles |-> <<"svelte.config.js", "svelte.config.ts">>,
       dependencies |-> <<"@sveltejs/kit">>],
      [name |-> "svelte", dependencies |-> <<"svelte">>],
      [name |-> "vue",
       configFiles |-> <<"vue.config.js">>,
       dependencies |-> <<"vue", "@vue/cli-service">>],
      [name |-> "angular",
       configFiles |-> <<"angular.json">>,
       dependencies |-> <<"@angular/core">>],
      [name |-> "gatsby",
       configFiles |-> <<"gatsby-config.js", "gatsby-config.ts">>,
       dependencies |-> <<"gatsby">>],
      [name |-> "vite", dependencies |-> <<"vite">>],
      [name |-> "express", dependencies |-> <<"express">>],
      [name |-> "fastify", dependencies |-> <<"fastify">>],
      [name |-> "hono", dependencies |-> <<"hono">>],
      [name |-> "elysia", dependencies |-> <<"elysia">>],
      [name |-> "nest", dependencies |-> <<"@nestjs/core">>],
      [name |-> "react", dependencies |-> <<"react", "react-dom">>],
      [name |-> "django", configFiles |-> <<"manage.py">>, requiredFiles |-> <<"manage.py">>],
      [name |-> "flask", configFiles |-> <<"app.py">>],
      [name |-> "fastapi", configFiles |-> <<"main.py">>],
      [name |-> "rails",
       configFiles |-> <<"config/application.rb">>,
       requiredFiles |-> <<"Gemfile", "config/application.rb">>],
      [name |-> "sinatra"],
      [name |-> "gin"],
      [name |-> "echo"],
      [name |-> "fiber"],
      [name |-> "actix"],
      [name |-> "axum"],
      [name |-> "rocket"],
      [name |-> "spring", configFiles |-> <<"pom.xml", "build.gradle", "build.gradle.kts">>]
    >>

LANGUAGE_PATTERNS ==
    <<
      [name |-> "typescript",
       files |-> <<"tsconfig.json", "tsconfig.base.json">>,
       dependencies |-> <<"typescript">>],
      [name |-> "javascript", files |-> <<"package.json", "jsconfig.json">>],
      [name |-> "python",
       files |-> <<"requirements.txt", "pyproject.toml", "setup.py", "Pipfile", "poetry.lock">>],
      [name |-> "ruby", files |-> <<"Gemfile", "Gemfile.lock", ".ruby-version">>],
      [name |-> "go", files |-> <<"go.mod", "go.sum">>],
      [name |-> "rust", files |-> <<"Cargo.toml", "Cargo.lock">>],
      [name |-> "java", files |-> <<"pom.xml", "build.gradle">>],
      [name |-> "kotlin", files |-> <<"build.gradle.kts">>],
      [name |-> "swift", files |-> <<"Package.swift", "*.xcodeproj", "*.xcworkspace">>],
      [name |-> "php", files |-> <<"composer.json", "composer.lock">>],
      [name |-> "csharp", files |-> <<"*.csproj", "*.sln">>],
      [name |-> "elixir", files |-> <<"mix.exs", "mix.lock">>],
      [name |-> "scala", files |-> <<"build.sbt">>],
      [name |-> "clojure", files |-> <<"project.clj", "deps.edn">>],
      [name |-> "haskell", files |-> <<"stack.yaml", "cabal.project">>],
      [name |-> "zig", files |-> <<"build.zig">>]
    >>

TOOL_PATTERNS ==
    <<
      [name |-> "prisma",
       configFiles |-> <<"prisma/schema.prisma">>,
       dependencies |-> <<"prisma", "@prisma/client">>],
      [name |-> "drizzle",
       configFiles |-> <<"drizzle.config.ts", "drizzle.config.js">>,
       dependencies |-> <<"drizzle-orm">>],
      [name |-> "typeorm", dependencies |-> <<"typeorm">>],
      [name |-> "sequelize", dependencies |-> <<"sequelize">>],
      [name |-> "mongoose", dependencies |-> <<"mongoose">>],
      [name |-> "kysely", dependencies |-> <<"kysely">>],
      [name |-> "tailwind",
       configFiles |-> <<"tailwind.config.js", "tailwind.config.ts", "tailwind.config.mjs", "tailwind.config.cjs">>,
       dependencies |-> <<"tailwindcss">>],
      [name |-> "styled-components", dependencies |-> <<"styled-components">>],
      [name |-> "emotion", dependencies |-> <<"@emotion/react", "@emotion/styled">>],
      [name |-> "sass", dependencies |-> <<"sass", "node-sass">>],
      [name |-> "less", dependencies |-> <<"less">>],
      [name |-> "webpack",
       configFiles |-> <<"webpack.config.js", "webpack.config.ts">>,
       dependencies |-> <<"webpack">>],
      [name |-> "esbuild", dependencies |-> <<"esbuild">>],
      [name |-> "rollup",
       configFiles |-> <<"rollup.config.js", "rollup.config.ts">>,
       dependencies |-> <<"rollup">>],
      [name |-> "turbopack",
       dependencies |-> <<"@serwist/turbopack", "@vercel/turbopack", "turbopack">>],
      [name |-> "turborepo", configFiles |-> <<"turbo.json">>, dependencies |-> <<"turbo">>],
      [name |-> "redux", dependencies |-> <<"redux", "@reduxjs/toolkit">>],
      [name |-> "zustand", dependencies |-> <<"zustand">>],
      [name |-> "jotai", dependencies |-> <<"jotai">>],
      [name |-> "recoil", dependencies |-> <<"recoil">>],
      [name |-> "mobx", dependencies |-> <<"mobx">>],
      [name |-> "graphql", dependencies |-> <<"graphql", "@apollo/client", "urql">>],
      [name |-> "trpc", dependencies |-> <<"@trpc/server", "@trpc/client">>],
      [name |-> "tanstack-query", dependencies |-> <<"@tanstack/react-query", "react-query">>],
      [name |-> "swr", dependencies |-> <<"swr">>],
      [name |-> "axios", dependencies |-> <<"axios">>],
      [name |-> "nextauth", dependencies |-> <<"next-auth">>],
      [name |-> "clerk", dependencies |-> <<"@clerk/nextjs", "@clerk/clerk-react">>],
      [name |-> "auth0", dependencies |-> <<"@auth0/nextjs-auth0", "@auth0/auth0-react">>],
      [name |-> "supabase",
       dependencies |-> <<"@supabase/supabase-js", "@supabase/auth-helpers-nextjs">>],
      [name |-> "firebase", dependencies |-> <<"firebase", "firebase-admin">>],
      [name |-> "docker",
       configFiles |-> <<"Dockerfile", "docker-compose.yml", "docker-compose.yaml">>],
      [name |-> "kubernetes", files |-> <<"k8s/", "kubernetes/", "helm/">>],
      [name |-> "terraform", files |-> <<"main.tf", "terraform/">>],
      [name |-> "pulumi", configFiles |-> <<"Pulumi.yaml">>],
      [name |-> "eslint",
       configFiles |-> <<".eslintrc", ".eslintrc.js", ".eslintrc.json", "eslint.config.js">>,
       dependencies |-> <<"eslint">>],
      [name |-> "prettier",
       configFiles |-> <<".prettierrc", ".prettierrc.js", ".prettierrc.json", "prettier.config.js">>,
       dependencies |-> <<"prettier">>],
      [name |-> "biome",
       configFiles |-> <<"biome.json", "biome.jsonc">>,
       dependencies |-> <<"@biomejs/biome">>],
      [name |-> "nx", configFiles |-> <<"nx.json">>, dependencies |-> <<"nx">>],
      [name |-> "lerna", configFiles |-> <<"lerna.json">>, dependencies |-> <<"lerna">>],
      [name |-> "changesets",
       files |-> <<".changeset/">>,
       dependencies |-> <<"@changesets/cli">>],
      [name |-> "storybook",
       files |-> <<".storybook/">>,
       dependencies |-> <<"@storybook/react", "storybook">>],
      [name |-> "docusaurus", dependencies |-> <<"@docusaurus/core">>],
      [name |-> "openai", dependencies |-> <<"openai">>],
      [name |-> "anthropic", dependencies |-> <<"@anthropic-ai/sdk">>],
      [name |-> "langchain", dependencies |-> <<"langchain", "@langchain/core">>],
      [name |-> "vercel-ai", dependencies |-> <<"ai">>]
    >>

TESTING_PATTERNS ==
    <<
      [name |-> "vitest",
       configFiles |-> <<"vitest.config.ts", "vitest.config.js", "vitest.config.mjs">>,
       dependencies |-> <<"vitest">>],
      [name |-> "jest",
       configFiles |-> <<"jest.config.js", "jest.config.ts", "jest.config.json">>,
       dependencies |-> <<"jest">>],
      [name |-> "mocha",
       configFiles |-> <<".mocharc.js", ".mocharc.json", ".mocharc.yaml">>,
       dependencies |-> <<"mocha">>],
      [name |-> "ava", dependencies |-> <<"ava">>],
      [name |-> "tap", dependencies |-> <<"tap">>],
      [name |-> "playwright",
       configFiles |-> <<"playwright.config.ts", "playwright.config.js">>,
       dependencies |-> <<"@playwright/test", "playwright">>],
      [name |-> "cypress",
       configFiles |-> <<"cypress.config.ts", "cypress.config.js", "cypress.json">>,
       dependencies |-> <<"cypress">>],
      [name |-> "puppeteer", dependencies |-> <<"puppeteer">>],
      [name |-> "selenium", dependencies |-> <<"selenium-webdriver">>],
      [name |-> "testing-library",
       dependencies |-> <<"@testing-library/react", "@testing-library/vue", "@testing-library/svelte", "@testing-library/dom">>],
      [name |-> "enzyme", dependencies |-> <<"enzyme">>],
      [name |-> "pytest",
       configFiles |-> <<"pytest.ini", "pyproject.toml">>,
       files |-> <<"tests/", "test/">>],
      [name |-> "unittest"],
      [name |-> "rspec", files |-> <<"spec/", ".rspec">>],
      [name |-> "minitest", files |-> <<"test/">>],
      [name |-> "go-test"],
      [name |-> "cargo-test"]
    >>

(***************************************************************************)
(* The detection context (src/index.ts, detect).                           *)
(***************************************************************************)
Declares(pattern, clause) == clause \in DOMAIN pattern

\* String.prototype.includes
Includes(s, part) ==
    LET n == Len(part)
    IN  \E i \in 1..(Len(s) - n + 1) : SubSeq(s, i, i + n - 1) = part

\* a slip: no try/catch value, the entries are taken from whatever the file lists
loadPackageJsonUnguarded(existing, content) ==
    IF "package.json" \notin existing THEN Undefined
    ELSE [dependencies |-> content.dependencies,
          devDependencies |-> content.devDependencies]

\* loadPackageJson: undefined when the file is missing, unreadable or not JSON
loadPackageJson(existing, content) ==
    IF "package.json" \notin existing THEN Undefined
    ELSE IF content.read \in {"unreadable", "malformed"} THEN Undefined
    ELSE [dependencies |-> content.dependencies,
          devDependencies |-> content.devDependencies]

\* the keys of {...packageJson?.dependencies, ...packageJson?.devDependencies}
AllDependencies(packageJson) ==
    IF packageJson = Undefined THEN {}
    ELSE packageJson.dependencies \cup packageJson.devDependencies

\* the DetectionContext detect() builds; cwd is the set of paths under it
Context(existing, content) ==
    [cwd |-> existing,
     packageJson |-> loadPackageJson(existing, content),
     allDependencies |-> AllDependencies(loadPackageJson(existing, content))]

\* existsSync(join(ctx.cwd, file))
existsSync(ctx, file) == file \in ctx.cwd

(***************************************************************************)
(* The four detectors.                                                     *)
(***************************************************************************)
\* a slip: return allExist, so a rule with requiredFiles never reads its other clauses
matchesPatternRequiredOnly(pattern, ctx) ==
    IF Declares(pattern, "requiredFiles")
    THEN \A file \in Range(pattern.requiredFiles) : existsSync(ctx, file)
    ELSE IF Declares(pattern, "configFiles")
            /\ \E file \in Range(pattern.configFiles) : existsSync(ctx, file)
    THEN TRUE
    ELSE IF Declares(pattern, "dependencies")
            /\ \E dep \in Range(pattern.dependencies) : dep \in ctx.allDependencies
    THEN TRUE
    ELSE FALSE

matchesPattern(pattern, ctx) ==
    IF Declares(pattern, "requiredFiles")
       /\ \A file \in Range(pattern.requiredFiles) : existsSync(ctx, file)
    THEN TRUE
    ELSE IF Declares(pattern, "configFiles")
            /\ \E file \in Range(pattern.configFiles) : existsSync(ctx, file)
    THEN TRUE
    ELSE IF Declares(pattern, "dependencies")
            /\ \E dep \in Range(pattern.dependencies) : dep \in ctx.allDependencies
    THEN TRUE
    ELSE FALSE

detectFrameworks(ctx) ==
    LET loop[i \in 0..Len(FRAMEWORK_PATTERNS)] ==
            IF i = 0 THEN <<>>
            ELSE IF matchesPattern(FRAMEWORK_PATTERNS[i], ctx)
                 THEN Append(loop[i - 1], FRAMEWORK_PATTERNS[i].name)
                 ELSE loop[i - 1]
    IN  loop[Len(FRAMEWORK_PATTERNS)]

\* a slip: a marker with a "*" is tested like the others, as a file of that name
matchesLanguagePatternGlobTested(pattern, ctx) ==
    IF Declares(pattern, "files")
       /\ \E file \in Range(pattern.files) : existsSync(ctx, file)
    THEN TRUE
    ELSE IF Declares(pattern, "dependencies")
            /\ \E dep \in Range(pattern.dependencies) : dep \in ctx.allDependencies
    THEN TRUE
    ELSE FALSE

\* a marker with a "*" is skipped, the others are tested in order
matchesLanguagePattern(pattern, ctx) ==
    IF Declares(pattern, "files")
       /\ \E file \in Range(pattern.files) :
              ~Includes(file, "*") /\ existsSync(ctx, file)
    THEN TRUE
    ELSE IF Declares(pattern, "dependencies")
            /\ \E dep \in Range(pattern.dependencies) : dep \in ctx.allDependencies
    THEN TRUE
    ELSE FALSE

detectLanguages(ctx) ==
    LET loop[i \in 0..Len(LANGUAGE_PATTERNS)] ==
            IF i = 0 THEN <<>>
            ELSE IF matchesLanguagePattern(LANGUAGE_PATTERNS[i], ctx)
                 THEN Append(loop[i - 1], LANGUAGE_PATTERNS[i].name)
                 ELSE loop[i - 1]
    IN  loop[Len(LANGUAGE_PATTERNS)]

matchesToolPattern(pattern, ctx) ==
    IF Declares(pattern, "configFiles")
       /\ \E file \in Range(pattern.configFiles) : existsSync(ctx, file)
    THEN TRUE
    ELSE IF Declares(pattern, "files")
            /\ \E file \in Range(pattern.files) : existsSync(ctx, file)
    THEN TRUE
    ELSE IF Declares(pattern, "dependencies")
            /\ \E dep \in Range(pattern.dependencies) : dep \in ctx.allDependencies
    THEN TRUE
    ELSE FALSE

\* Array.prototype.filter with t => t !== a && t !== b
Without(arr, dropped) == SelectSeq(arr, LAMBDA t : t \notin dropped)

\* a slip: || for && in both conditions, so webpack goes without turbopack
ExcludeSupersededEitherPresent(found) ==
    LET filtered1 == IF "turbopack" \in Range(found) \/ "webpack" \in Range(found)
                     THEN Without(found, {"webpack"})
                     ELSE found
    IN  IF "biome" \in Range(filtered1)
        THEN Without(filtered1, {"eslint", "prettier"})
        ELSE filtered1

\* a slip: t !== "eslint" || t !== "prettier", which every name passes
ExcludeSupersededKeepsLinters(found) ==
    LET filtered1 == IF "turbopack" \in Range(found) /\ "webpack" \in Range(found)
                     THEN Without(found, {"webpack"})
                     ELSE found
    IN  IF "biome" \in Range(filtered1)
        THEN SelectSeq(filtered1, LAMBDA t : t # "eslint" \/ t # "prettier")
        ELSE filtered1

\* arr.forEach((t, i) => dropped.has(t) && arr.splice(i, 1)): the element after
\* a removed one is skipped
RECURSIVE SpliceWhileIterating(_, _, _)
SpliceWhileIterating(arr, i, dropped) ==
    IF i > Len(arr) THEN arr
    ELSE IF arr[i] \in dropped
         THEN SpliceWhileIterating(SubSeq(arr, 1, i - 1) \o SubSeq(arr, i + 1, Len(arr)),
                                   i + 1, dropped)
         ELSE SpliceWhileIterating(arr, i + 1, dropped)

\* a slip: the superseded names spliced out of the list while it is iterated
ExcludeSupersededBySplice(found) ==
    LET filtered1 == IF "turbopack" \in Range(found) /\ "webpack" \in Range(found)
                     THEN SpliceWhileIterating(found, 1, {"webpack"})
                     ELSE found
    IN  IF "biome" \in Range(filtered1)
        THEN SpliceWhileIterating(filtered1, 1, {"eslint", "prettier"})
        ELSE filtered1

\* detectTools, "Exclude superseded tools" to the return
ExcludeSuperseded(found) ==
    LET filtered1 == IF "turbopack" \in Range(found) /\ "webpack" \in Range(found)
                     THEN Without(found, {"webpack"})
                     ELSE found
    IN  IF "biome" \in Range(filtered1)
        THEN Without(filtered1, {"eslint", "prettier"})
        ELSE filtered1

\* detectTools, the loop over TOOL_PATTERNS
MatchedTools(ctx) ==
    LET loop[i \in 0..Len(TOOL_PATTERNS)] ==
            IF i = 0 THEN <<>>
            ELSE IF matchesToolPattern(TOOL_PATTERNS[i], ctx)
                 THEN Append(loop[i - 1], TOOL_PATTERNS[i].name)
                 ELSE loop[i - 1]
    IN  loop[Len(TOOL_PATTERNS)]

detectTools(ctx) == ExcludeSuperseded(MatchedTools(ctx))

matchesTestingPattern(pattern, ctx) ==
    IF Declares(pattern, "configFiles")
       /\ \E file \in Range(pattern.configFiles) : existsSync(ctx, file)
    THEN TRUE
    ELSE IF Declares(pattern, "files")
            /\ \E file \in Range(pattern.files) : existsSync(ctx, file)
    THEN TRUE
    ELSE IF Declares(pattern, "dependencies")
            /\ \E dep \in Range(pattern.dependencies) : dep \in ctx.allDependencies
    THEN TRUE
    ELSE FALSE

detectTesting(ctx) ==
    LET loop[i \in 0..Len(TESTING_PATTERNS)] ==
            IF i = 0 THEN <<>>
            ELSE IF matchesTestingPattern(TESTING_PATTERNS[i], ctx)
                 THEN Append(loop[i - 1], TESTING_PATTERNS[i].name)
                 ELSE loop[i - 1]
    IN  loop[Len(TESTING_PATTERNS)]

\* detect(): the four lists and the sorted, duplicate-free search terms
detect(existing, content) ==
    LET ctx == Context(existing, content)
        frameworks == detectFrameworks(ctx)
        languages == detectLanguages(ctx)
        tools == detectTools(ctx)
        testing == detectTesting(ctx)
    IN  [frameworks |-> frameworks,
         languages |-> languages,
         tools |-> tools,
         testing |-> testing,
         searchTerms |->
             SortStrings(UniqueInOrder(frameworks \o languages \o tools \o testing))]

(***************************************************************************)
(* The projects the model runs on: at most MaxSignals marker files and     *)
(* package.json entries, taken from the files and packages below.          *)
(***************************************************************************)
ProbeFiles ==
    {"next.config.js", "manage.py", "Gemfile", "config/application.rb", "pom.xml",
     "package.json", "tsconfig.json", "go.mod", "Package.swift", "*.csproj",
     "App.xcodeproj/",
     "webpack.config.js", "turbo.json", ".eslintrc", ".prettierrc", "biome.json",
     "test/"}

ProbeDependencies ==
    {"next", "react", "svelte", "webpack", "turbopack", "@vercel/turbopack",
     "eslint", "prettier", "@biomejs/biome", "axios", "turbo",
     "@testing-library/react"}

ProbeDevDependencies == {"typescript", "vitest", "@biomejs/biome"}

\* the subsets of S of at most n elements
SubsetsUpTo(S, n) ==
    LET sub[k \in 0..n] ==
            IF k = 0 THEN {{}}
            ELSE sub[k - 1] \cup {T \cup {x} : T \in sub[k - 1], x \in S}
    IN  sub[n]

\* what package.json can be when it exists: the entries its text lists, and
\* whether readFileSync and JSON.parse succeed on it
Manifests(n) ==
    {[read |-> r, dependencies |-> d, devDependencies |-> dd] :
        r \in {"unreadable", "malformed", "parsed"},
        d \in SubsetsUpTo(ProbeDependencies, n),
        dd \in SubsetsUpTo(ProbeDevDependencies, n)}

\* no package.json under cwd
NoManifest == [read |-> "missing", dependencies |-> {}, devDependencies |-> {}]

Signals(existing, content) ==
    Cardinality(existing) +
    Cardinality(content.dependencies) + Cardinality(content.devDependencies)

InitProject ==
    /\ files \in SubsetsUpTo(ProbeFiles, MaxSignals)
    /\ manifest \in IF "package.json" \in files
                    THEN Manifests(MaxSignals - Cardinality(files))
                    ELSE {NoManifest}
    /\ Signals(files, manifest) <= MaxSignals

(***************************************************************************)
(* A call of the exported detect().                                        *)
(***************************************************************************)
\* the state of the variables a specification does not use
IdleProject == files = {} /\ manifest = NoManifest /\ detected = Undefined

IdleFilter == toolList = <<>> /\ passes = <<>>

IdleRelevance ==
    skillRef = "" /\ term = "" /\ detectedFrameworks = <<>> /\ relevant = FALSE

IdleGroup == refs = <<>> /\ skills = <<>>


NoReport == [assembled |-> FALSE]

NoFile == [state |-> "absent"]

NoOutput == [status |-> "none", lines |-> <<>>]

IdleSearch == searchOutput = NoOutput /\ searchReturn = <<>>

IdleMain ==
    /\ options = [help |-> FALSE, version |-> FALSE, json |-> FALSE, skipSearch |-> FALSE]
    /\ allSkillRefs = <<>> /\ searchTerms = <<>> /\ nextTerm = 0
    /\ searchLog = <<>>
    /\ skillsJson = NoReport /\ printed = <<>> /\ skillsFile = NoFile /\ exitCode = 0

IdleRun == IdleMain /\ IdleSearch

InitDetect ==
    /\ InitProject
    /\ pc = "detect"
    /\ detected = Undefined
    /\ IdleFilter /\ IdleRelevance /\ IdleGroup /\ IdleRun

Detect ==
    /\ pc = "detect"
    /\ detected' = detect(files, manifest)
    /\ pc' = "returned"
    /\ UNCHANGED <<projectVars, filterVars, relevanceVars, groupVars, runVars>>

NextDetect == Detect

SpecDetect == InitDetect /\ [][NextDetect]_vars

(***************************************************************************)
(* Properties of detect().                                                 *)
(***************************************************************************)
\* the keys of the dependency mapping of the project
DependencyKeys ==
    IF "package.json" \in files /\ manifest.read = "parsed"
    THEN manifest.dependencies \cup manifest.devDependencies
    ELSE {}

\* C1: the searchTerms detect returns hold exactly the names of the returned
\* frameworks, languages, tools and testing lists, each once, in ascending
\* lexicographic order.
C1_SearchTermsSortedUnion ==
    pc = "returned" =>
        LET terms == detected.searchTerms
        IN  /\ Range(terms) = Range(detected.frameworks) \cup Range(detected.languages)
                              \cup Range(detected.tools) \cup Range(detected.testing)
            /\ \A i \in 1..(Len(terms) - 1) : StrLess(terms[i], terms[i + 1])

\* a returned result whose lists, put end to end, are not in order: three or
\* more terms from several categories, one of them superseded
C1_Witness ==
    /\ pc = "returned"
    /\ Len(detected.searchTerms) >= 3
    /\ detected.frameworks # <<>> /\ detected.tools # <<>> /\ detected.languages # <<>>
    /\ detected.searchTerms #
           detected.frameworks \o detected.languages \o detected.tools \o detected.testing
    /\ "biome" \in Range(detected.tools) /\ ".eslintrc" \in files

\* whether a framework rule matches, as the three clauses state it
FrameworkRuleMatches(rule) ==
    \/ Declares(rule, "requiredFiles")
       /\ \A file \in Range(rule.requiredFiles) : file \in files
    \/ Declares(rule, "configFiles")
       /\ \E file \in Range(rule.configFiles) : file \in files
    \/ Declares(rule, "dependencies")
       /\ \E dep \in Range(rule.dependencies) : dep \in DependencyKeys

FrameworkIndex(name) ==
    CHOOSE i \in 1..Len(FRAMEWORK_PATTERNS) : FRAMEWORK_PATTERNS[i].name = name

\* every file and every package a framework rule names
FrameworkFiles ==
    UNION {IF Declares(FRAMEWORK_PATTERNS[i], clause)
           THEN Range(FRAMEWORK_PATTERNS[i][clause]) ELSE {} :
              i \in 1..Len(FRAMEWORK_PATTERNS), clause \in {"requiredFiles", "configFiles"}}

FrameworkDependencies ==
    UNION {IF Declares(FRAMEWORK_PATTERNS[i], "dependencies")
           THEN Range(FRAMEWORK_PATTERNS[i].dependencies) ELSE {} :
              i \in 1..Len(FRAMEWORK_PATTERNS)}

BiomeRuleMatches ==
    \/ "biome.json" \in files
    \/ "biome.jsonc" \in files
    \/ "@biomejs/biome" \in DependencyKeys

WebpackRuleMatches ==
    \/ "webpack.config.js" \in files
    \/ "webpack.config.ts" \in files
    \/ "webpack" \in DependencyKeys

TurbopackRuleMatches ==
    DependencyKeys \cap {"@serwist/turbopack", "@vercel/turbopack", "turbopack"} # {}

\* C3: when the biome rule matches, the tools detectTools returns hold neither
\* eslint nor prettier, whatever markers of those two the project has.
C3_BiomeHidesEslintAndPrettier ==
    (pc = "returned" /\ BiomeRuleMatches) =>
        /\ "biome" \in Range(detected.tools)
        /\ "eslint" \notin Range(detected.tools)
        /\ "prettier" \notin Range(detected.tools)

\* biome detected in a project that has eslint's and prettier's own markers
C3_Witness ==
    /\ pc = "returned"
    /\ BiomeRuleMatches
    /\ ".eslintrc" \in files \/ "eslint" \in DependencyKeys
    /\ ".prettierrc" \in files \/ "prettier" \in DependencyKeys
    /\ "biome" \in Range(detected.tools)

\* C4: when the webpack rule and the turbopack rule both match, tools holds
\* turbopack and not webpack; when only the webpack rule matches, tools holds
\* webpack.
C4_TurbopackHidesWebpack ==
    pc = "returned" =>
        /\ (WebpackRuleMatches /\ TurbopackRuleMatches) =>
               /\ "turbopack" \in Range(detected.tools)
               /\ "webpack" \notin Range(detected.tools)
        /\ (WebpackRuleMatches /\ ~TurbopackRuleMatches) =>
               "webpack" \in Range(detected.tools)

\* both rules match and webpack is gone
C4_Witness ==
    /\ pc = "returned"
    /\ WebpackRuleMatches /\ TurbopackRuleMatches
    /\ "turbopack" \in Range(detected.tools)
    /\ "webpack" \notin Range(detected.tools)

\* the other half of C4: webpack kept when turbopack is not there
C4_WitnessKept ==
    /\ pc = "returned"
    /\ WebpackRuleMatches /\ ~TurbopackRuleMatches
    /\ "webpack" \in Range(detected.tools)

(***************************************************************************)
(* The supersession step of detectTools on its own: a list of tool names   *)
(* goes through it MaxPasses times.                                        *)
(***************************************************************************)
ProbeTools == {"webpack", "turbopack", "eslint", "prettier", "biome", "prisma"}

SeqsUpTo(S, n) == UNION {[1..k -> S] : k \in 0..n}

InitFilter ==
    /\ toolList \in SeqsUpTo(ProbeTools, MaxToolList)
    /\ passes = <<>>
    /\ pc = "filter"
    /\ IdleProject /\ IdleRelevance /\ IdleGroup /\ IdleRun

Filter ==
    /\ pc = "filter"
    /\ Len(passes) < MaxPasses
    /\ passes' = Append(passes, ExcludeSuperseded(IF passes = <<>> THEN toolList
                                                  ELSE passes[Len(passes)]))
    /\ UNCHANGED <<pc, toolList, detectVars, relevanceVars, groupVars, runVars>>

NextFilter == Filter

SpecFilter == InitFilter /\ [][NextFilter]_vars

\* C5: the supersession step is idempotent: applied to its own output it
\* returns that output, filter(filter(x)) = filter(x), for every list x.
C5_SupersessionIdempotent ==
    \A i \in 2..Len(passes) : passes[i] = passes[1]

\* a second pass over a list from which the first pass took webpack, eslint
\* and prettier
C5_Witness ==
    /\ Len(passes) >= 2
    /\ {"webpack", "turbopack", "eslint", "biome"} \subseteq Range(toolList)
    /\ Range(passes[1]) = {"turbopack", "biome"}

(***************************************************************************)
(* The relevance filter (src/cli.ts, isRelevantSkill).                     *)
(***************************************************************************)
\* Object.entries(ECOSYSTEM_MARKERS), in insertion order
ECOSYSTEM_MARKERS ==
    <<
      [ecosystem |-> "expo", markers |-> <<"expo", "react-native", "mobile">>],
      [ecosystem |-> "react-native", markers |-> <<"expo", "react-native", "mobile">>],
      [ecosystem |-> "flutter", markers |-> <<"flutter", "dart">>],
      [ecosystem |-> "android", markers |-> <<"android", "kotlin", "gradle">>],
      [ecosystem |-> "ios", markers |-> <<"ios", "swift", "xcode", "cocoapods">>],
      [ecosystem |-> "unity", markers |-> <<"unity", "gamedev">>]
    >>

\* the lowercase letter of each uppercase letter
LowerOf ==
    [c \in CharsOf(UpperLetters) |-> CharAt(LowerLetters, PositionIn(UpperLetters)[c])]

\* String.prototype.toLowerCase on the model's characters
RECURSIVE ToLowerCase(_)
ToLowerCase(s) ==
    IF s = "" THEN ""
    ELSE LET c == Head(s)
         IN  (IF c \in DOMAIN LowerOf THEN LowerOf[c] ELSE c) \o ToLowerCase(Tail(s))

\* the characters escapeRegex puts a backslash before
RegexSpecials == {".", "*", "+", "?", "^", "$", "{", "}", "(", ")", "|", "[", "]", "\\"}

\* escapeRegex: str.replace(/[.*+?^${}()|[\]\\]/g, "\\$&")
escapeRegex(str) ==
    LET escaped[i \in 0..Len(str)] ==
            IF i = 0 THEN ""
            ELSE LET c == CharAt(str, i)
                 IN  escaped[i - 1] \o (IF c \in RegexSpecials THEN "\\" \o c ELSE c)
    IN  escaped[Len(str)]

\* the text a pattern source free of unescaped special characters matches: the
\* character after a backslash, and any other character, stand for themselves
RECURSIVE RegexLiteral(_)
RegexLiteral(source) ==
    IF source = "" THEN ""
    ELSE IF CharAt(source, 1) = "\\" /\ Len(source) >= 2
         THEN CharAt(source, 2) \o RegexLiteral(SubSeq(source, 3, Len(source)))
         ELSE CharAt(source, 1) \o RegexLiteral(SubSeq(source, 2, Len(source)))

\* the character class [^a-z]
NotLowerLetter(c) == c \notin CharsOf(LowerLetters)

\* a slip: lowerRef.includes(lowerTerm) for the word-boundary test
SubstringTest(lowerRef, source) == Includes(lowerRef, RegexLiteral(source))

\* new RegExp(`(^|[^a-z])${source}([^a-z]|$)`).test(lowerRef)
WordBoundaryTest(lowerRef, source) ==
    LET literal == RegexLiteral(source)
        n == Len(literal)
    IN  \E i \in 1..(Len(lowerRef) - n + 1) :
            /\ SubSeq(lowerRef, i, i + n - 1) = literal
            /\ i = 1 \/ NotLowerLetter(CharAt(lowerRef, i - 1))
            /\ i + n - 1 = Len(lowerRef) \/ NotLowerLetter(CharAt(lowerRef, i + n))

\* a slip: a marker counts only as a whole word of the candidate
HasEcosystemMarkerAsWord(lowerRef, markers) ==
    \E marker \in Range(markers) : WordBoundaryTest(lowerRef, escapeRegex(marker))

\* markers.some((marker) => lowerRef.includes(marker))
HasEcosystemMarker(lowerRef, markers) ==
    \E marker \in Range(markers) : Includes(lowerRef, marker)

\* a slip: every for some, which holds of a project without frameworks
ProjectUsesEcosystemEvery(frameworks, entry) ==
    \A fw \in Range(frameworks) :
        fw = entry.ecosystem \/ ToLowerCase(fw) \in Range(entry.markers)

\* detectedFrameworks.some((fw) => fw === ecosystem || markers.includes(fw.toLowerCase()))
ProjectUsesEcosystem(frameworks, entry) ==
    \E fw \in Range(frameworks) :
        fw = entry.ecosystem \/ ToLowerCase(fw) \in Range(entry.markers)

isRelevantSkill(candidate, searchTerm, frameworks) ==
    LET lowerRef == ToLowerCase(candidate)
        lowerTerm == ToLowerCase(searchTerm)
        hasTermMatch == WordBoundaryTest(lowerRef, escapeRegex(lowerTerm))
    IN  IF ~hasTermMatch /\ ~(Includes(lowerTerm, "-") /\ Includes(lowerRef, lowerTerm))
        THEN FALSE
        ELSE \A k \in 1..Len(ECOSYSTEM_MARKERS) :
                 HasEcosystemMarker(lowerRef, ECOSYSTEM_MARKERS[k].markers)
                     => ProjectUsesEcosystem(frameworks, ECOSYSTEM_MARKERS[k])

(***************************************************************************)
(* isRelevantSkill on its own.  A candidate is a match of the pattern      *)
(* owner/repo@skill of searchSkills; its repository name is made of at     *)
(* most MaxChunks chunks.                                                  *)
(***************************************************************************)
ProbeOwners == {"acme", "golang"}

ProbeChunks == {"go", "ax", "ios", "un", "-", "2", "Expo", "testing-library"}

ProbeSkills == {"guide", "flutter-ui"}

\* the concatenations of 1..n chunks
Words(n) ==
    LET words[k \in 1..n] ==
            IF k = 1 THEN ProbeChunks
            ELSE words[k - 1] \cup {w \o c : w \in words[k - 1], c \in ProbeChunks}
    IN  words[n]

ProbeSkillRefs ==
    {owner \o "/" \o repo \o "@" \o skill :
        owner \in ProbeOwners, repo \in Words(MaxChunks), skill \in ProbeSkills}

ProbeTerms == {"go", "axios", "testing-library", "expo"}

ProbeFrameworkLists ==
    {<<>>, <<"react">>, <<"nextjs", "react">>, <<"expo">>, <<"react-native">>,
     <<"ios">>, <<"Swift">>, <<"react", "flutter">>}

InitRelevance ==
    /\ skillRef \in ProbeSkillRefs
    /\ term \in ProbeTerms
    /\ detectedFrameworks \in ProbeFrameworkLists
    /\ relevant = FALSE
    /\ pc = "isRelevantSkill"
    /\ IdleProject /\ IdleFilter /\ IdleGroup /\ IdleRun

CheckRelevance ==
    /\ pc = "isRelevantSkill"
    /\ relevant' = isRelevantSkill(skillRef, term, detectedFrameworks)
    /\ pc' = "returned"
    /\ UNCHANGED <<skillRef, term, detectedFrameworks, detectVars, filterVars, groupVars, runVars>>

NextRelevance == CheckRelevance

SpecRelevance == InitRelevance /\ [][NextRelevance]_vars

\* the ecosystems of which the candidate, lowercased, holds a marker
EcosystemsOfCandidate ==
    LET lowerRef == ToLowerCase(skillRef)
    IN  {k \in 1..Len(ECOSYSTEM_MARKERS) :
            \E marker \in Range(ECOSYSTEM_MARKERS[k].markers) : Includes(lowerRef, marker)}

TermIsWordOfCandidate ==
    LET lowerRef == ToLowerCase(skillRef)
        lowerTerm == ToLowerCase(term)
        n == Len(lowerTerm)
    IN  \E i \in 1..(Len(lowerRef) - n + 1) :
            /\ SubSeq(lowerRef, i, i + n - 1) = lowerTerm
            /\ i = 1 \/ CharAt(lowerRef, i - 1) \notin CharsOf(LowerLetters)
            /\ i + n - 1 = Len(lowerRef)
               \/ CharAt(lowerRef, i + n) \notin CharsOf(LowerLetters)

C7_TermMatchDecidesWithoutMarker ==
    (/\ pc = "returned"
     /\ EcosystemsOfCandidate = {})
    => (relevant <=>
           \/ TermIsWordOfCandidate
           \/ /\ Includes(term, "-")
              /\ Includes(ToLowerCase(skillRef), ToLowerCase(term)))

\* term go, rejected: go is only inside longer words of the candidate
C7_Witness ==
    /\ pc = "returned"
    /\ term = "go"
    /\ skillRef = "golang/ungo@guide"
    /\ relevant = FALSE

\* term go, accepted: go is a path segment of its own
C7_WitnessAccepted ==
    /\ pc = "returned"
    /\ term = "go"
    /\ skillRef = "acme/go@guide"
    /\ relevant = TRUE

\* a hyphenated term accepted as a plain substring, the word test having failed
C7_WitnessFallback ==
    /\ pc = "returned"
    /\ term = "testing-library"
    /\ skillRef = "acme/untesting-library@guide"
    /\ ~TermIsWordOfCandidate
    /\ relevant = TRUE

(***************************************************************************)
(* The aggregation of skill references (src/cli.ts, parseSkillRef and      *)
(* groupSkillsBySource).                                                   *)
(***************************************************************************)
\* String.prototype.indexOf, 1-based; 0 for the -1 of JavaScript
IndexOf(s, part) ==
    LET at == {i \in 1..(Len(s) - Len(part) + 1) : SubSeq(s, i, i + Len(part) - 1) = part}
    IN  IF at = {} THEN 0 ELSE CHOOSE i \in at : \A j \in at : i <= j

parseSkillRef(ref) ==
    LET atIndex == IndexOf(ref, "@")
    IN  IF atIndex = 0
        THEN [source |-> ref, skill |-> ""]
        ELSE [source |-> SubSeq(ref, 1, atIndex - 1),
              skill |-> SubSeq(ref, atIndex + 1, Len(ref))]

\* the characters that sort before the digits in the collation of the default
\* locale (CLDR root), in their order there
CollationPunctuation == "_-:@/"

\* the primary weight of a character of a source: punctuation, then the digits,
\* then the letters without their case
CollationWeight ==
    [c \in CharsOf(CollationPunctuation) |-> PositionIn(CollationPunctuation)[c]] @@
    [c \in CharsOf(DigitChars) |-> 10 + PositionIn(DigitChars)[c]] @@
    [c \in CharsOf(LowerLetters) |-> 20 + PositionIn(LowerLetters)[c]] @@
    [c \in CharsOf(UpperLetters) |-> 20 + PositionIn(UpperLetters)[c]]

\* a.localeCompare(b) < 0: by primary weight, a proper prefix first; strings
\* of equal weights by case, the lowercase letter first where they differ
LocaleLess(a, b) ==
    LET primary[i \in 1..(Len(b) + 1)] ==
            IF i > Len(b) THEN "not less"
            ELSE IF i > Len(a) THEN "less"
            ELSE IF CollationWeight[CharAt(a, i)] # CollationWeight[CharAt(b, i)]
                 THEN IF CollationWeight[CharAt(a, i)] < CollationWeight[CharAt(b, i)]
                      THEN "less" ELSE "not less"
                 ELSE primary[i + 1]
        differ == {i \in 1..Len(a) : CharAt(a, i) # CharAt(b, i)}
    IN  IF Len(a) = Len(b) /\ \A i \in 1..Len(a) :
                                  CollationWeight[CharAt(a, i)] = CollationWeight[CharAt(b, i)]
        THEN differ # {}
             /\ CharAt(a, CHOOSE i \in differ : \A j \in differ : i <= j)
                    \in CharsOf(LowerLetters)
        ELSE primary[1] = "less"

\* entries with entry put before the first one whose source is greater
InsertBySource(entries, entry) ==
    LET n == Cardinality({i \in 1..Len(entries) :
                             ~LocaleLess(entry.source, entries[i].source)})
    IN  SubSeq(entries, 1, n) \o <<entry>> \o SubSeq(entries, n + 1, Len(entries))

\* Array.prototype.sort((a, b) => a.source.localeCompare(b.source))
SortBySource(entries) ==
    LET sorted[i \in 0..Len(entries)] ==
            IF i = 0 THEN <<>> ELSE InsertBySource(sorted[i - 1], entries[i])
    IN  sorted[Len(entries)]

\* a slip: sourceMap.set(source, new Set([skill])), each reference replacing the
\* skills its source had
SkillsOfSourceOverwritten(list, source) ==
    LET mine == SelectSeq(list, LAMBDA ref : parseSkillRef(ref).source = source)
        last == parseSkillRef(mine[Len(mine)]).skill
    IN  IF last = "" THEN <<>> ELSE <<last>>

\* the Set of a source in sourceMap after the loop: the non-empty skill names
\* of its references, each once, in the order of their first reference
SkillsOfSource(list, source) ==
    UniqueInOrder(
        SelectSeq([i \in 1..Len(list) |->
                      IF parseSkillRef(list[i]).source = source
                      THEN parseSkillRef(list[i]).skill ELSE ""],
                  LAMBDA skill : skill # ""))

groupSkillsBySource(list) ==
    LET sources == UniqueInOrder([i \in 1..Len(list) |-> parseSkillRef(list[i]).source])
    IN  SortBySource([k \in 1..Len(sources) |->
                         [source |-> sources[k],
                          skills |-> SortStrings(SkillsOfSource(list, sources[k]))]])

(***************************************************************************)
(* The aggregation on its own: main's "Dedupe and group by source" on a    *)
(* list of at most MaxRefs references.                                     *)
(***************************************************************************)
ProbeRefs ==
    {"vercel-labs/next-skills@next-upgrade",
     "vercel-labs/next-skills@next-best-practices",
     "vercel-labs/agent-skills@vercel-react-best-practices",
     "Zed/tools@lint",
     "acme/go@basics",
     "acme/go",
     "acme/go@"}

InitGroup ==
    /\ refs \in SeqsUpTo(ProbeRefs, MaxRefs)
    /\ skills = <<>>
    /\ pc = "group"
    /\ IdleProject /\ IdleFilter /\ IdleRelevance /\ IdleRun

Group ==
    /\ pc = "group"
    /\ skills' = groupSkillsBySource(UniqueInOrder(refs))
    /\ pc' = "returned"
    /\ UNCHANGED <<refs, detectVars, filterVars, relevanceVars, runVars>>

NextGroup == Group

SpecGroup == InitGroup /\ [][NextGroup]_vars

\* ref is source, or source, an @ and skill, with no @ in source
RefIs(ref, source, skill) ==
    \/ ~Includes(ref, "@") /\ source = ref /\ skill = ""
    \/ ~Includes(source, "@") /\ ref = source \o "@" \o skill

\* the beginnings and the ends of a string
Prefixes(s) == {SubSeq(s, 1, k) : k \in 0..Len(s)}

Suffixes(s) == {SubSeq(s, k, Len(s)) : k \in 1..(Len(s) + 1)}

\* C10: groupSkillsBySource returns one entry per distinct source of the
\* references, the entries in ascending order of source; the skills of an
\* entry are the non-empty skill names of the references with its source, each
\* once and in ascending order, so two skill names of one source are both kept
\* and a reference without @ gives its source an entry and no skill.
C10_OneEntryPerSourceWithItsSkills ==
    pc = "returned" =>
        /\ \A r \in Range(refs) :
               \E k \in 1..Len(skills) : \E skill \in Suffixes(r) :
                   /\ RefIs(r, skills[k].source, skill)
                   /\ skill # "" => skill \in Range(skills[k].skills)
        /\ \A k \in 1..Len(skills) :
               /\ \E r \in Range(refs) : \E skill \in Suffixes(r) :
                      RefIs(r, skills[k].source, skill)
               /\ \A name \in Range(skills[k].skills) :
                      /\ name # ""
                      /\ \E r \in Range(refs) : RefIs(r, skills[k].source, name)
               /\ \A i \in 1..(Len(skills[k].skills) - 1) :
                      StrLess(skills[k].skills[i], skills[k].skills[i + 1])
        /\ \A k \in 1..(Len(skills) - 1) :
               LocaleLess(skills[k].source, skills[k + 1].source)

\* two skill names kept under one source, a reference given twice, and the
\* sources out of order in the list
C10_Witness ==
    /\ pc = "returned"
    /\ refs = <<"vercel-labs/next-skills@next-upgrade",
                "vercel-labs/next-skills@next-best-practices",
                "vercel-labs/next-skills@next-upgrade">>
    /\ skills = <<[source |-> "vercel-labs/next-skills",
                   skills |-> <<"next-best-practices", "next-upgrade">>]>>

\* a reference without @: its source has an entry, with no skill
C10_WitnessSourceOnly ==
    /\ pc = "returned"
    /\ refs = <<"Zed/tools@lint", "acme/go">>
    /\ skills = <<[source |-> "acme/go", skills |-> <<>>],
                  [source |-> "Zed/tools", skills |-> <<"lint">>]>>

(***************************************************************************)
(* The search of the registry (src/cli.ts, searchSkills).  What            *)
(* execSync("npx skills find <term>") does is the registry's choice: it    *)
(* fails, or it returns its output, here the lines of it.                  *)
(***************************************************************************)
\* stands for the escape character U+001B, which a string of the model cannot hold
ESC == "~"

\* the classes [a-zA-Z0-9_-] and [a-zA-Z0-9_:-] of the match pattern
NameChars ==
    CharsOf(LowerLetters) \cup CharsOf(UpperLetters) \cup CharsOf(DigitChars) \cup {"_", "-"}

SkillChars == NameChars \cup {":"}

\* how many characters of s, from position from on, are of the class
RECURSIVE RunLength(_, _, _)
RunLength(s, from, class) ==
    IF from > Len(s) \/ CharAt(s, from) \notin class THEN 0
    ELSE 1 + RunLength(s, from + 1, class)

\* the class [0-9;] of the escape sequences
AnsiParameterChars == CharsOf(DigitChars) \cup {";"}

\* output.replace(/\x1b\[[0-9;]*m/g, "")
RECURSIVE StripAnsi(_)
StripAnsi(s) ==
    IF s = "" THEN ""
    ELSE LET n == RunLength(s, 3, AnsiParameterChars)
         IN  IF /\ Head(s) = ESC
                /\ Len(s) >= 3 + n
                /\ CharAt(s, 2) = "["
                /\ CharAt(s, 3 + n) = "m"
             THEN StripAnsi(SubSeq(s, 4 + n, Len(s)))
             ELSE Head(s) \o StripAnsi(Tail(s))

\* the match of /^[a-zA-Z0-9_-]+\/[a-zA-Z0-9_-]+@[a-zA-Z0-9_:-]+/ at the start of
\* a line, <<>> when there is none
MatchAtLineStart(line) ==
    LET owner == RunLength(line, 1, NameChars)
        repo == RunLength(line, owner + 2, NameChars)
        skill == RunLength(line, owner + repo + 3, SkillChars)
    IN  IF /\ owner >= 1 /\ repo >= 1 /\ skill >= 1
           /\ CharAt(line, owner + 1) = "/"
           /\ CharAt(line, owner + repo + 2) = "@"
        THEN <<SubSeq(line, 1, owner + repo + skill + 2)>>
        ELSE <<>>

\* stripped.match(/.../gm): the matches of the lines, in order; <<>> for null
Matches(lines) ==
    LET found[i \in 0..Len(lines)] ==
            IF i = 0 THEN <<>>
            ELSE found[i - 1] \o MatchAtLineStart(StripAnsi(lines[i]))
    IN  found[Len(lines)]

\* a slip: the last relevant match is kept, not the first
RECURSIVE LastRelevant(_, _, _)
LastRelevant(candidates, searchTerm, frameworks) ==
    IF candidates = <<>> THEN <<>>
    ELSE IF isRelevantSkill(candidates[Len(candidates)], searchTerm, frameworks)
         THEN <<candidates[Len(candidates)]>>
         ELSE LastRelevant(SubSeq(candidates, 1, Len(candidates) - 1), searchTerm, frameworks)

\* "for (const match of matches)": the first match that is relevant, <<>> when
\* none is
RECURSIVE FirstRelevant(_, _, _)
FirstRelevant(candidates, searchTerm, frameworks) ==
    IF candidates = <<>> THEN <<>>
    ELSE IF isRelevantSkill(Head(candidates), searchTerm, frameworks)
         THEN <<Head(candidates)>>
         ELSE FirstRelevant(Tail(candidates), searchTerm, frameworks)

\* a slip: no try/catch, so a failure of execSync is thrown to the caller
searchSkillsUncaught(searchTerm, frameworks, outcome) ==
    IF outcome.status # "ok"
    THEN [threw |-> TRUE, value |-> <<>>]
    ELSE [threw |-> FALSE,
          value |-> FirstRelevant(Matches(outcome.lines), searchTerm, frameworks)]

\* searchSkills: value is <<>> for null and <<ref>> for a reference; threw says
\* whether the call raised instead of returning
searchSkills(searchTerm, frameworks, outcome) ==
    IF outcome.status # "ok"
    THEN [threw |-> FALSE, value |-> <<>>]
    ELSE [threw |-> FALSE,
          value |-> FirstRelevant(Matches(outcome.lines), searchTerm, frameworks)]

\* the lines the registry may print for a term
RegistryLines(searchTerm) ==
    {"No skills found",
     ESC \o "[36mkit/" \o searchTerm \o "@guide" \o ESC \o "[0m 9 installs",
     "mobile/" \o searchTerm \o "@setup",
     "acme/" \o searchTerm \o "@pro"}

\* what a call of execSync may do: it throws, or it returns at most MaxLines
\* lines, no line twice
SearchOutcomes(searchTerm) ==
    {[status |-> failure, lines |-> <<>>] :
        failure \in {"timeout", "spawn failure", "non-zero exit"}} \cup
    {[status |-> "ok", lines |-> lines] :
        lines \in {l \in SeqsUpTo(RegistryLines(searchTerm), MaxLines) :
                      \A i, j \in 1..Len(l) : l[i] = l[j] => i = j}}

(***************************************************************************)
(* The command line run (src/cli.ts, main).                                *)
(***************************************************************************)
CURATED_SKILLS ==
    [nextjs |-> <<"vercel-labs/next-skills@next-best-practices",
                  "vercel-labs/next-skills@next-upgrade",
                  "vercel-labs/agent-skills@vercel-react-best-practices">>,
     react |-> <<"vercel-labs/agent-skills@vercel-react-best-practices">>,
     turborepo |-> <<"vercel/turborepo@turborepo">>]

\* the concatenation of the lists of a list
RECURSIVE Flatten(_)
Flatten(lists) ==
    IF lists = <<>> THEN <<>> ELSE Head(lists) \o Flatten(Tail(lists))

\* a slip: the curated skills looked up for the frameworks only
CuratedRefsOfFrameworks(result) ==
    Flatten([i \in 1..Len(result.frameworks) |->
                IF result.frameworks[i] \in DOMAIN CURATED_SKILLS
                THEN CURATED_SKILLS[result.frameworks[i]] ELSE <<>>])

\* main, "Start with curated/official skills": allSkillRefs after the loop
CuratedRefs(result) ==
    LET curatedTerms == result.frameworks \o result.tools
    IN  Flatten([i \in 1..Len(curatedTerms) |->
                    IF curatedTerms[i] \in DOMAIN CURATED_SKILLS
                    THEN CURATED_SKILLS[curatedTerms[i]] ELSE <<>>])

\* main, "Filter search terms": the terms that go to the search
FilterSearchTerms(result) ==
    LET uncurated == SelectSeq(result.searchTerms,
                               LAMBDA t : t \notin DOMAIN CURATED_SKILLS)
    IN  IF Len(result.frameworks) > 0
        THEN SelectSeq(uncurated, LAMBDA t : t # "javascript" /\ t # "typescript")
        ELSE IF "typescript" \in Range(uncurated)
             THEN SelectSeq(uncurated, LAMBDA t : t # "javascript")
             ELSE uncurated

\* main, "Build skills.json"
BuildSkillsJson(result, list) ==
    [assembled |-> TRUE,
     schema |-> "https://unpkg.com/skillman/skills_schema.json",
     detected |-> [frameworks |-> result.frameworks,
                   languages |-> result.languages,
                   tools |-> result.tools,
                   testing |-> result.testing,
                   searchTerms |-> result.searchTerms,
                   timestamp |-> "new Date().toISOString()"],
     skills |-> groupSkillsBySource(UniqueInOrder(list))]

\* the projects of the runs
RunFiles == {"package.json", "tsconfig.json", "next.config.js", "turbo.json", "go.mod"}

RunDependencies == {"react", "prisma"}

InitRun ==
    /\ files \in SUBSET RunFiles
    /\ manifest \in IF "package.json" \in files
                    THEN {[read |-> "malformed", dependencies |-> {},
                           devDependencies |-> {}]} \cup
                         {[read |-> "parsed", dependencies |-> d, devDependencies |-> {}] :
                             d \in SUBSET RunDependencies}
                    ELSE {NoManifest}
    /\ options \in [help : BOOLEAN, version : BOOLEAN, json : BOOLEAN, skipSearch : BOOLEAN]
    /\ pc = "main"
    /\ detected = Undefined
    /\ allSkillRefs = <<>> /\ searchTerms = <<>> /\ nextTerm = 0
    /\ searchLog = <<>>
    /\ skillsJson = NoReport /\ printed = <<>> /\ skillsFile = NoFile /\ exitCode = 0
    /\ IdleFilter /\ IdleRelevance /\ IdleGroup /\ IdleSearch

idleVars == <<filterVars, relevanceVars, groupVars, searchVars>>

\* main, to "const cwd": --help and --version end the run
MainStart ==
    /\ pc = "main"
    /\ IF options.help
       THEN printed' = Append(printed, "help") /\ pc' = "exit"
       ELSE IF options.version
            THEN printed' = Append(printed, "version") /\ pc' = "exit"
            ELSE printed' = printed /\ pc' = "detect"
    /\ UNCHANGED <<projectVars, detected, options, allSkillRefs, searchTerms, nextTerm,
                   searchLog, skillsJson, skillsFile, exitCode, idleVars>>

\* main, from detect() to the return of --skip-search
MainDetect ==
    /\ pc = "detect"
    /\ detected' = detect(files, manifest)
    /\ IF options.json /\ options.skipSearch
       THEN printed' = Append(printed, "detected") /\ pc' = "exit"
       ELSE IF ~options.json /\ Len(detected'.searchTerms) = 0
            THEN printed' = printed \o <<"analysis", "nothing detected">> /\ pc' = "exit"
            ELSE /\ printed' = IF options.json THEN printed
                               ELSE printed \o <<"analysis", "search terms">>
                 /\ pc' = IF options.skipSearch THEN "exit" ELSE "curated"
    /\ UNCHANGED <<projectVars, options, allSkillRefs, searchTerms, nextTerm,
                   searchLog, skillsJson, skillsFile, exitCode, idleVars>>

\* main, from "Start with curated/official skills" to the search loop
MainCurated ==
    /\ pc = "curated"
    /\ allSkillRefs' = CuratedRefs(detected)
    /\ searchTerms' = FilterSearchTerms(detected)
    /\ nextTerm' = 1
    /\ printed' = IF ~options.json /\ Len(allSkillRefs') > 0
                  THEN printed \o <<"curated skills">> ELSE printed
    /\ pc' = "search"
    /\ UNCHANGED <<projectVars, detected, options, searchLog, skillsJson,
                   skillsFile, exitCode, idleVars>>

\* a slip: a term whose search failed is searched a second time
MainSearchRetrying ==
    /\ pc = "search"
    /\ nextTerm <= Len(searchTerms)
    /\ \E outcome \in SearchOutcomes(searchTerms[nextTerm]) :
           LET topResult == searchSkills(searchTerms[nextTerm], detected.frameworks, outcome)
               firstTry == \/ searchLog = <<>>
                           \/ searchLog[Len(searchLog)].term # searchTerms[nextTerm]
           IN  /\ searchLog' = Append(searchLog,
                                      [term |-> searchTerms[nextTerm],
                                       execSync |-> outcome.status,
                                       matched |-> outcome.status = "ok"
                                                   /\ Matches(outcome.lines) # <<>>,
                                       result |-> topResult.value])
               /\ allSkillRefs' = allSkillRefs \o topResult.value
               /\ nextTerm' = IF outcome.status # "ok" /\ firstTry
                              THEN nextTerm ELSE nextTerm + 1
               /\ UNCHANGED <<exitCode, pc>>
    /\ UNCHANGED <<projectVars, detected, options, searchTerms, skillsJson, printed,
                   skillsFile, idleVars>>

\* main, one turn of "for (const term of searchTerms)"; an exception of
\* searchSkills would leave main and reach main().catch
MainSearch ==
    /\ pc = "search"
    /\ nextTerm <= Len(searchTerms)
    /\ \E outcome \in SearchOutcomes(searchTerms[nextTerm]) :
           LET topResult == searchSkills(searchTerms[nextTerm], detected.frameworks, outcome)
           IN  /\ searchLog' = Append(searchLog,
                                      [term |-> searchTerms[nextTerm],
                                       execSync |-> outcome.status,
                                       matched |-> outcome.status = "ok"
                                                   /\ Matches(outcome.lines) # <<>>,
                                       result |-> topResult.value])
               /\ IF topResult.threw
                  THEN /\ exitCode' = 1 /\ pc' = "exit"
                       /\ UNCHANGED <<allSkillRefs, nextTerm>>
                  ELSE /\ allSkillRefs' = allSkillRefs \o topResult.value
                       /\ nextTerm' = nextTerm + 1
                       /\ UNCHANGED <<exitCode, pc>>
    /\ UNCHANGED <<projectVars, detected, options, searchTerms, skillsJson, printed,
                   skillsFile, idleVars>>

\* main, after the loop: "Dedupe and group by source" to the return of --json
MainReport ==
    /\ pc = "search"
    /\ nextTerm > Len(searchTerms)
    /\ skillsJson' = BuildSkillsJson(detected, allSkillRefs)
    /\ IF options.json
       THEN printed' = Append(printed, "report") /\ pc' = "exit"
       ELSE printed' = printed /\ pc' = "write"
    /\ UNCHANGED <<projectVars, detected, options, allSkillRefs, searchTerms, nextTerm,
                   searchLog, skillsFile, exitCode, idleVars>>

\* a slip: the file is written inside the loop, with the references found so far
MainWritePerTerm ==
    /\ pc = "search"
    /\ nextTerm <= Len(searchTerms)
    /\ skillsFile' = [state |-> "complete",
                      content |-> BuildSkillsJson(detected, allSkillRefs)]
    /\ UNCHANGED <<projectVars, detected, options, allSkillRefs, searchTerms, nextTerm,
                   searchLog, skillsJson, printed, exitCode, pc, idleVars>>

\* main, writeFileSync to the end: the write succeeds, or it throws before the
\* file is opened, or after it was opened and truncated; main().catch sets the
\* exit code
MainWrite ==
    /\ pc = "write"
    /\ \E result \in {"written", "refused", "interrupted"} :
           /\ skillsFile' = CASE result = "written" ->
                                     [state |-> "complete", content |-> skillsJson]
                                 [] result = "refused" -> skillsFile
                                 [] result = "interrupted" -> [state |-> "partial"]
           /\ exitCode' = IF result = "written" THEN exitCode ELSE 1
           /\ printed' = IF result = "written" THEN printed \o <<"found", "wrote">>
                         ELSE printed
    /\ pc' = "exit"
    /\ UNCHANGED <<projectVars, detected, options, allSkillRefs, searchTerms, nextTerm,
                   searchLog, skillsJson, idleVars>>

NextRun ==
    \/ MainStart
    \/ MainDetect
    \/ MainCurated
    \/ MainSearch
    \/ MainReport
    \/ MainWrite

SpecRun == InitRun /\ [][NextRun]_vars

(***************************************************************************)
(* Properties of the run.                                                  *)
(***************************************************************************)
\* the run has passed the return of --skip-search and set up the search
SearchPhaseReached == pc \in {"search", "write", "exit"} /\ nextTerm >= 1

\* the terms of CURATED_SKILLS among the detected terms
CuratedTermsDetected == DOMAIN CURATED_SKILLS \cap Range(detected.searchTerms)

\* the report has an entry for the source of ref that lists the skill of ref
InReport(ref) ==
    \E k \in 1..Len(skillsJson.skills) : \E skill \in Suffixes(ref) :
        /\ skill # ""
        /\ RefIs(ref, skillsJson.skills[k].source, skill)
        /\ skill \in Range(skillsJson.skills[k].skills)

\* C8: in a run that reaches the search phase, every curated reference of
\* every detected term of CURATED_SKILLS (nextjs, react, turborepo) is among the
\* collected references and, once the report is assembled, in the report (its
\* source is an entry whose skills hold its skill name), whatever
\* isRelevantSkill says of it; no search is made for such a term; the file
\* written holds the report.
C8_CuratedSkillsReportedNotSearched ==
    SearchPhaseReached =>
        /\ \A t \in CuratedTermsDetected :
               /\ t \notin Range(searchTerms)
               /\ \A i \in 1..Len(searchLog) : searchLog[i].term # t
               /\ \A j \in 1..Len(CURATED_SKILLS[t]) :
                      /\ CURATED_SKILLS[t][j] \in Range(allSkillRefs)
                      /\ skillsJson.assembled => InReport(CURATED_SKILLS[t][j])
        /\ skillsFile.state = "complete" => skillsFile.content = skillsJson

\* nextjs and turborepo detected, other terms searched: the report written has
\* the curated entries, one of them a reference isRelevantSkill would reject
C8_Witness ==
    /\ pc = "exit"
    /\ skillsFile.state = "complete"
    /\ CuratedTermsDetected = {"nextjs", "turborepo"}
    /\ Len(searchLog) >= 1
    /\ ~isRelevantSkill("vercel-labs/next-skills@next-best-practices", "nextjs",
                        detected.frameworks)
    /\ \E k \in 1..Len(skillsFile.content.skills) :
           skillsFile.content.skills[k] =
               [source |-> "vercel-labs/next-skills",
                skills |-> <<"next-best-practices", "next-upgrade">>]
    /\ \E k \in 1..Len(skillsFile.content.skills) :
           skillsFile.content.skills[k] =
               [source |-> "vercel/turborepo", skills |-> <<"turborepo">>]

\* the calls of searchSkills whose search failed or printed no owner/repo@skill line
NoResultCalls ==
    {i \in 1..Len(searchLog) : searchLog[i].execSync # "ok" \/ ~searchLog[i].matched}

\* the references the calls of searchSkills returned, in order
SearchResults == Flatten([i \in 1..Len(searchLog) |-> searchLog[i].result])

\* C9: a search that fails (timeout, spawn failure, non-zero exit) or prints no
\* line of the form owner/repo@skill returns no result and raises nothing: the
\* term adds no reference, the terms after it are searched in their order, the
\* run leaves the loop only after the last term and with the report assembled,
\* the report has no entry from the registry for that term, and the exit code
\* is set only by a failed write of the report.
C9_FailedSearchGivesNoResult ==
    /\ \A i \in NoResultCalls : searchLog[i].result = <<>>
    /\ SearchPhaseReached =>
           /\ Len(searchLog) = nextTerm - 1
           /\ \A i \in 1..Len(searchLog) : searchLog[i].term = searchTerms[i]
           /\ allSkillRefs = CuratedRefs(detected) \o SearchResults
           /\ pc # "search" =>
                  /\ Len(searchLog) = Len(searchTerms)
                  /\ skillsJson.assembled
                  /\ \A i \in NoResultCalls : \A k \in 1..Len(skillsJson.skills) :
                         ~Includes(skillsJson.skills[k].source, searchLog[i].term)
    /\ exitCode = 1 => skillsJson.assembled /\ skillsFile.state # "complete"

\* a timeout for the first term and an output without a match for the second,
\* then a reference found for the third, and the report written with it
C9_Witness ==
    /\ pc = "exit"
    /\ exitCode = 0
    /\ skillsFile.state = "complete"
    /\ Len(searchLog) = 3
    /\ searchLog[1].execSync = "timeout"
    /\ searchLog[2].execSync = "ok" /\ ~searchLog[2].matched
    /\ searchLog[3].result # <<>>
    /\ InReport(searchLog[3].result[1])
    /\ Len(skillsFile.content.skills) = 1

\* every candidate the registry printed was rejected: no result either
C9_WitnessAllRejected ==
    /\ pc = "exit"
    /\ \E i \in 1..Len(searchLog) :
           searchLog[i].matched /\ searchLog[i].result = <<>>

(***************************************************************************)
(* One turn of the search loop on its own: a term, the detected            *)
(* frameworks and what execSync does are given, searchSkills is called     *)
(* and main pushes its result.                                             *)
(***************************************************************************)
SearchProbeTerms == {"go", "prisma"}

SearchProbeFrameworks == {<<>>, <<"react">>, <<"expo">>}

\* the lines of the output: those of RegistryLines and a candidate that holds
\* the term inside a longer word
SearchProbeLines(searchTerm) ==
    RegistryLines(searchTerm) \cup {"golang/un" \o searchTerm \o "@guide"}

InitSearch ==
    /\ term \in SearchProbeTerms
    /\ detectedFrameworks \in SearchProbeFrameworks
    /\ searchOutput \in
           {[status |-> failure, lines |-> <<>>] :
               failure \in {"timeout", "spawn failure", "non-zero exit"}} \cup
           {[status |-> "ok", lines |-> lines] :
               lines \in {l \in SeqsUpTo(SearchProbeLines(term), MaxLines) :
                             \A i, j \in 1..Len(l) : l[i] = l[j] => i = j}}
    /\ searchReturn = <<>>
    /\ pc = "searchSkills"
    /\ skillRef = "" /\ relevant = FALSE
    /\ IdleProject /\ IdleFilter /\ IdleGroup /\ IdleMain

\* main, the body of "for (const term of searchTerms)" for one term
SearchTerm ==
    /\ pc = "searchSkills"
    /\ searchReturn' = searchSkills(term, detectedFrameworks, searchOutput).value
    /\ allSkillRefs' = allSkillRefs \o searchReturn'
    /\ pc' = "returned"
    /\ UNCHANGED <<detectVars, filterVars, relevanceVars, groupVars, searchOutput,
                   options, searchTerms, nextTerm, searchLog, skillsJson, printed,
                   skillsFile, exitCode>>

NextSearch == SearchTerm

SpecSearch == InitSearch /\ [][NextSearch]_vars

\* the matches of the output, and the positions of those that are relevant
Candidates == IF searchOutput.status = "ok" THEN Matches(searchOutput.lines) ELSE <<>>

RelevantAt ==
    {i \in 1..Len(Candidates) : isRelevantSkill(Candidates[i], term, detectedFrameworks)}

\* C17: searchSkills returns the first candidate, in the order of the registry
\* output, for which isRelevantSkill is true, and no result when none is; the
\* term adds that one reference, or none, to the references collected, and a
\* relevant candidate listed after another relevant one is not retained.
C17_FirstRelevantCandidateOnly ==
    pc = "returned" =>
        /\ RelevantAt = {} => searchReturn = <<>>
        /\ \A i \in RelevantAt :
               (\A j \in RelevantAt : i <= j) => searchReturn = <<Candidates[i]>>
        /\ \A i, j \in RelevantAt : i < j => Candidates[j] \notin Range(allSkillRefs)
        /\ Len(allSkillRefs) <= 1
        /\ allSkillRefs = searchReturn

\* two relevant candidates: the first listed is returned, the second is not
C17_Witness ==
    /\ pc = "returned"
    /\ term = "go" /\ detectedFrameworks = <<"react">>
    /\ Candidates = <<"acme/go@pro", "kit/go@guide">>
    /\ RelevantAt = {1, 2}
    /\ allSkillRefs = <<"acme/go@pro">>

\* the candidates before the first relevant one are passed over
C17_WitnessPassedOver ==
    /\ pc = "returned"
    /\ term = "go" /\ detectedFrameworks = <<>>
    /\ Candidates = <<"mobile/go@setup", "kit/go@guide">>
    /\ allSkillRefs = <<"kit/go@guide">>

\* candidates, none relevant: no result
C17_WitnessNoneRelevant ==
    /\ pc = "returned"
    /\ term = "go" /\ detectedFrameworks = <<>>
    /\ Candidates = <<"golang/ungo@guide", "mobile/go@setup">>
    /\ allSkillRefs = <<>>

\* the step changes skills.json only as the one write of main does: the file was
\* untouched, detection has returned, every search term has been processed, and
\* the report assembled holds the schema, the detected record with its
\* timestamp and the skills of all the references; a write that succeeds leaves
\* that report in the file, a write that fails sets the exit code
WriteStepIsTheOneWrite ==
    skillsFile' # skillsFile =>
        /\ skillsFile = NoFile
        /\ pc = "write" /\ pc' = "exit"
        /\ detected # Undefined
        /\ Len(searchLog) = Len(searchTerms)
        /\ skillsJson.assembled
        /\ skillsJson.schema = "https://unpkg.com/skillman/skills_schema.json"
        /\ skillsJson.detected.searchTerms = detected.searchTerms
        /\ "timestamp" \in DOMAIN skillsJson.detected
        /\ \A i \in 1..Len(allSkillRefs) : InReport(allSkillRefs[i])
        /\ skillsFile'.state = "complete" => skillsFile'.content = skillsJson
        /\ skillsFile'.state # "complete" => exitCode' = 1

\* C11 as claimed: skills.json is written at most once and only after
\* detection, every search term and the assembly of the complete report; a run
\* that ends before writes nothing, and the file never holds a partial report.
C11_WrittenOnceNeverPartial ==
    /\ [][WriteStepIsTheOneWrite]_vars
    /\ [](skillsFile.state \in {"absent", "complete"})

\* C11 amended: skills.json is written at most once and only after detection,
\* every search term and the assembly of the complete report; a run that ends
\* or fails before that point leaves the file untouched; the file holds a
\* partial report only when that one write itself failed after it had opened
\* the file, and the run then ends with exit code 1.
C11_WrittenOnceAfterReport ==
    /\ [][WriteStepIsTheOneWrite]_vars
    /\ [](skillsFile.state = "partial" =>
              pc = "exit" /\ exitCode = 1 /\ skillsJson.assembled)
    /\ [](pc # "exit" => skillsFile = NoFile)

\* a run with two searches has written the complete report
C11_Witness ==
    /\ pc = "exit"
    /\ Len(searchLog) >= 2
    /\ skillsFile.state = "complete"
    /\ skillsFile.content.detected.timestamp = "new Date().toISOString()"
    /\ skillsFile.content.skills # <<>>

\* a run ended by --skip-search has written nothing
C11_WitnessNothingWritten ==
    /\ pc = "exit" /\ options.skipSearch /\ detected # Undefined
    /\ skillsFile = NoFile

\* the write failed midway
C11_WitnessPartial ==
    pc = "exit" /\ skillsFile.state = "partial"

\* how many calls of searchSkills were made for the term
CallsFor(t) == Cardinality({i \in 1..Len(searchLog) : searchLog[i].term = t})

\* the position of the term in the searchTerms of the report
PositionInReport(t) ==
    CHOOSE i \in 1..Len(detected.searchTerms) : detected.searchTerms[i] = t

\* the calls so far are for terms of the report, in the order of its searchTerms
CallsInReportOrder ==
    /\ \A i \in 1..Len(searchLog) : searchLog[i].term \in Range(detected.searchTerms)
    /\ \A i, j \in 1..Len(searchLog) :
           i < j => PositionInReport(searchLog[i].term) < PositionInReport(searchLog[j].term)

\* the generic language terms main leaves out of the search: javascript and
\* typescript when a framework is detected, else javascript next to typescript
LanguageTermsSkipped ==
    IF detected.frameworks # <<>> THEN {"javascript", "typescript"}
    ELSE IF "typescript" \in Range(detected.searchTerms) THEN {"javascript"}
    ELSE {}

C16_WitnessTypescript ==
    /\ pc = "exit"
    /\ skillsJson.assembled
    /\ skillsJson.detected.searchTerms = <<"go", "javascript", "typescript">>
    /\ [i \in 1..Len(searchLog) |-> searchLog[i].term] = <<"go", "typescript">>

\* the canonical names of the frameworks the README lists as supported
\* (NestJS is the rule named nest)
ReadmeFrameworks ==
    {"nextjs", "remix", "astro", "nuxt", "sveltekit", "vue", "angular", "gatsby",
     "vite", "express", "fastify", "hono", "elysia", "nest", "react",
     "django", "flask", "fastapi", "rails", "sinatra", "gin", "echo", "fiber",
     "actix", "axum", "rocket", "spring"}

\* the manifests the comments of the catalog name (Gemfile, go.mod, Cargo.toml)
EcosystemManifests == {"Gemfile", "go.mod", "Cargo.toml", "requirements.txt", "package.json"}

ParsedManifest(deps) == [read |-> "parsed", dependencies |-> deps, devDependencies |-> {}]

\* projects that hold one file, or one dependency, or all the files of a rule, or
\* every file and every dependency a framework rule or the README names
SupportedProjects ==
    {[existing |-> {file}, content |-> NoManifest] :
        file \in (FrameworkFiles \cup EcosystemManifests) \ {"package.json"}} \cup
    {[existing |-> {"package.json"}, content |-> ParsedManifest({dep})] :
        dep \in FrameworkDependencies \cup ReadmeFrameworks} \cup
    {[existing |-> Range(FRAMEWORK_PATTERNS[i].requiredFiles), content |-> NoManifest] :
        i \in {j \in 1..Len(FRAMEWORK_PATTERNS) :
                  Declares(FRAMEWORK_PATTERNS[j], "requiredFiles")}} \cup
    {[existing |-> FrameworkFiles \cup EcosystemManifests,
      content |-> ParsedManifest(FrameworkDependencies \cup ReadmeFrameworks)]}

\* the listed frameworks that detectFrameworks returns for the project of the
\* run or for some of these projects
DetectableFrameworks ==
    {name \in ReadmeFrameworks :
        \E project \in SupportedProjects \cup {[existing |-> files, content |-> manifest]} :
            name \in Range(detectFrameworks(Context(project.existing, project.content)))}

\* C12 as claimed: for every framework the README lists as supported there is a
\* project (existing files and a dependency mapping) for which detectFrameworks
\* returns the framework's canonical name.
C12_EveryListedFrameworkDetectable == DetectableFrameworks = ReadmeFrameworks

\* what the code does: the seven rules without a clause are in no result
C12_ClauselessRulesNeverDetected ==
    pc = "returned" =>
        Range(detected.frameworks) \cap
            {"sinatra", "gin", "echo", "fiber", "actix", "axum", "rocket"} = {}

\* C13 as claimed: a framework rule that declares requiredFiles and is returned
\* by detectFrameworks without a dependency of it in the dependency mapping has
\* all its requiredFiles in the project; so rails is not returned for a project
\* where config/application.rb exists and Gemfile does not.
C13_RequiredFilesExistTogether ==
    pc = "returned" =>
        /\ \A i \in 1..Len(FRAMEWORK_PATTERNS) :
               LET rule == FRAMEWORK_PATTERNS[i]
               IN  /\ Declares(rule, "requiredFiles")
                   /\ rule.name \in Range(detected.frameworks)
                   /\ ~(/\ Declares(rule, "dependencies")
                        /\ \E dep \in Range(rule.dependencies) : dep \in DependencyKeys)
                   => \A file \in Range(rule.requiredFiles) : file \in files
        /\ "config/application.rb" \in files /\ "Gemfile" \notin files
               => "rails" \notin Range(detected.frameworks)

\* what the code does: config/application.rb alone gives rails
C13_RailsWithoutGemfile ==
    /\ pc = "returned"
    /\ files = {"config/application.rb"}
    /\ detected.frameworks = <<"rails">>

\* the language rules that have a glob-style marker
GlobRules ==
    {i \in 1..Len(LANGUAGE_PATTERNS) :
        /\ Declares(LANGUAGE_PATTERNS[i], "files")
        /\ \E file \in Range(LANGUAGE_PATTERNS[i].files) : Includes(file, "*")}

C14_WitnessSkipped ==
    /\ pc = "returned"
    /\ files = {"*.csproj", "App.xcodeproj/"}
    /\ detected.languages = <<>>

\* the rules of the four catalogs
AllPatterns == FRAMEWORK_PATTERNS \o LANGUAGE_PATTERNS \o TOOL_PATTERNS \o TESTING_PATTERNS

FileClauses == {"requiredFiles", "configFiles", "files"}

\* the names whose rule has a dependency clause and no file clause
NamesOfDependencyOnlyRules ==
    {AllPatterns[i].name : i \in {j \in 1..Len(AllPatterns) :
        /\ Declares(AllPatterns[j], "dependencies")
        /\ \A clause \in FileClauses : ~Declares(AllPatterns[j], clause)}}

\* the names whose rule lists, in a file clause, a file of the project
NamesWithAnExistingFile ==
    {AllPatterns[i].name : i \in {j \in 1..Len(AllPatterns) :
        \E clause \in FileClauses :
            /\ Declares(AllPatterns[j], clause)
            /\ \E file \in Range(AllPatterns[j][clause]) : file \in files}}

\* C15: when package.json is missing, unreadable or not valid JSON, detect
\* returns a result (all five lists): the manifest is undefined, the
\* dependency mapping is empty whatever the file lists, every returned name
\* has a file of one of its file clauses in the project, and no returned name
\* is of a rule that has only a dependency clause.
C15_NoManifestNoDependencyMatch ==
    pc = "returned" /\ ~("package.json" \in files /\ manifest.read = "parsed") =>
        /\ DOMAIN detected = {"frameworks", "languages", "tools", "testing", "searchTerms"}
        /\ Context(files, manifest).packageJson = Undefined
        /\ Context(files, manifest).allDependencies = {}
        /\ Range(detected.searchTerms) \subseteq NamesWithAnExistingFile
        /\ Range(detected.searchTerms) \cap NamesOfDependencyOnlyRules = {}

\* a package.json that lists react and vitest but does not parse: javascript
\* and typescript through their files, neither react nor vitest
C15_Witness ==
    /\ pc = "returned"
    /\ files = {"package.json", "tsconfig.json"}
    /\ manifest.read = "malformed"
    /\ manifest.dependencies = {"react"}
    /\ manifest.devDependencies = {"vitest"}
    /\ "react" \in NamesOfDependencyOnlyRules
    /\ detected.searchTerms = <<"javascript", "typescript">>

\* the same entries in a package.json that parses are detected
C15_WitnessParsed ==
    /\ pc = "returned"
    /\ files = {"package.json", "tsconfig.json"}
    /\ manifest.read = "parsed"
    /\ manifest.dependencies = {"react"}
    /\ manifest.devDependencies = {"vitest"}
    /\ detected.searchTerms = <<"javascript", "react", "typescript", "vitest">>

\* the names detectFrameworks can return
FrameworkNames == {FRAMEWORK_PATTERNS[i].name : i \in 1..Len(FRAMEWORK_PATTERNS)}

\* C18: for every list of names of FRAMEWORK_PATTERNS and every candidate,
\* isRelevantSkill(candidate, "axios", frameworks) is false: no name of
\* FRAMEWORK_PATTERNS makes a project one of the ios ecosystem, whose marker
\* "ios" is in every candidate that matches the term axios.
C18_AxiosNeverRelevant ==
    /\ \A k \in 1..Len(ECOSYSTEM_MARKERS) :
           "ios" \in Range(ECOSYSTEM_MARKERS[k].markers) =>
               \A name \in FrameworkNames :
                   ~ProjectUsesEcosystem(<<name>>, ECOSYSTEM_MARKERS[k])
    /\ pc = "returned" /\ term = "axios"
       /\ Range(detectedFrameworks) \subseteq FrameworkNames
           => ~relevant

\* a candidate of the axios repository, in a React project: the term matches,
\* the ios marker vetoes
C18_Witness ==
    /\ pc = "returned"
    /\ term = "axios"
    /\ skillRef = "acme/axios@guide"
    /\ detectedFrameworks = <<"nextjs", "react">>
    /\ TermIsWordOfCandidate
    /\ ~relevant

=============================================================================
